---- MODULE Spec2Model ----
(***************************************************************************)
(* Model of the timed segment resolution and composition engine:           *)
(*   - merge_empty_intervals   (utility/video/video_search_query_generator) *)
(*   - yolo_reframe_clip        (utility/render/render_engine)              *)
(*   - get_output_media         (utility/render/render_engine)              *)
(* Timestamps are integers; None is the string "None".                     *)
(***************************************************************************)
EXTENDS Integers, Sequences, FiniteSets, TLC

\* ---------------------------------------------------------------- bounds
MaxSegs == 3        \* longest candidate list handed to merge_empty_intervals
MaxSegLen == 2      \* longest interval of one candidate

None == "None"
Media == {"clipA", "clipB"}
Urls == Media \cup {None}

VARIABLES
    segments,       \* argument of the current/last merge_empty_intervals call
    merged_out,     \* what the last call returned ([raised, out])
    prev_out,       \* what the call before it returned
    mcalls,         \* number of calls made so far
    segments_after, \* the caller's list as it reads after the last call
    src,            \* <<w, h>> of the frames of the clip being reframed
    yolo_loaded,    \* yolo_model is not None
    largest_object_bbox,  \* the closure variable of yolo_reframe_clip
    rmode,          \* "idle", or what yolo_reframe_clip returned: "resize" / "fl"
    frame_out,      \* what the last frame request produced
    clip_mode,      \* per downloaded clip: "idle", or "fl" once yolo_reframe_clip ran
    cells,          \* the largest_object_bbox cell of each yolo_reframe_clip call
    clip_frame,     \* per clip: what its last frame request produced
    last_run,       \* the clip that ran last, and its anchor before that step
    ui_pc,          \* position in run_video_script
    ui_env,         \* the API keys set in os.environ
    ui_personality, \* argument of run_video_script
    ui_topic,       \* argument of run_video_script
    ui_button,      \* the button state yielded last: "none", "generating", "enabled"
    ui_video,       \* the video path yielded last
    ui_files,       \* rendered_video.mp4 and audio_tts.wav in the working directory
    ui_files_before,    \* the same when run_video_script was called
    ui_launched,    \* subprocess.Popen has returned a process
    ui_proc,        \* how the process ended: return code and what its render reported
    ui_exit,        \* the return path taken by run_video_script
    ui_lines,       \* log lines yielded so far
    log_pc,         \* position of the consuming loop of run_video_script
    log_queue,      \* queue.Queue shared by the two readers and the loop
    lines_read,     \* per stream, the number of lines its reader has enqueued
    reader_done,    \* per stream, the reader has put its EOF sentinel
    stdout_finished,
    stderr_finished,
    full_log,       \* the lines appended to full_log, in order
    error_output,   \* the lines appended to error_output, in order
    app_pc,         \* position in app.py's __main__
    app_audio_file, \* audio_tts.wav: "absent", "old" (of an earlier run) or "new"
    app_script,     \* script_with_emojis
    app_success,    \* what generate_audio returned
    app_captions,   \* timed_captions
    app_captions_from,  \* the audio file the captions were generated from
    app_terms,      \* search_terms
    app_timeline,   \* timed_background_urls
    app_render_calls,   \* the arguments of every get_output_media call
    app_trace,      \* the stages run so far, in order
    app_exit,       \* exit code of the process
    url_pc,         \* position in generate_video_url
    timed_video_searches,   \* argument of generate_video_url
    kayla_image_url,        \* argument of generate_video_url
    url_index,      \* the loop's position in timed_video_searches (from 1)
    used_links,     \* link bases assigned so far
    timed_video_urls,       \* the list being built
    url_how,        \* for each element built: where its URL came from
    background_video_data,  \* argument of get_output_media
    timed_captions,         \* argument of get_output_media
    seg_i,          \* next element of background_video_data to process
    outcomes,       \* per processed element: "skipped", "loaded" or "failed"
    visual_clips,
    temp_files,     \* names registered for cleanup (element indexes)
    tmp_on_disk,    \* temporary files that exist
    audio_clips,
    caption_clips,
    final_video,
    output_written,
    out_file,       \* rendered_video.mp4: "absent", "stale", "partial", "complete"
    out_file_before,    \* rendered_video.mp4 when get_output_media was called
    writer_calls,   \* calls of write_videofile
    returned,       \* return value of get_output_media
    pc              \* position in get_output_media

mergeVars == <<segments, merged_out, prev_out, mcalls, segments_after>>
reframeVars == <<src, yolo_loaded, largest_object_bbox, rmode, frame_out>>
renderVars == <<background_video_data, timed_captions, seg_i, outcomes, visual_clips,
                temp_files, tmp_on_disk, audio_clips, caption_clips, final_video,
                output_written, out_file, out_file_before, writer_calls, returned, pc>>
clipVars == <<clip_mode, cells, clip_frame, last_run>>
uiVars == <<ui_pc, ui_env, ui_personality, ui_topic, ui_button, ui_video, ui_files,
            ui_files_before, ui_launched, ui_proc, ui_exit, ui_lines>>
logVars == <<log_pc, log_queue, lines_read, reader_done, stdout_finished,
             stderr_finished, full_log, error_output>>
coreVars == <<mergeVars, reframeVars, renderVars, clipVars>>
appVars == <<app_pc, app_audio_file, app_script, app_success, app_captions,
             app_captions_from, app_terms, app_timeline, app_render_calls,
             app_trace, app_exit>>
urlVars == <<url_pc, timed_video_searches, kayla_image_url, url_index, used_links,
             timed_video_urls, url_how>>
extraVars == <<uiVars, logVars, appVars, urlVars>>
otherThanUi == <<coreVars, logVars, appVars, urlVars>>
otherThanLog == <<coreVars, uiVars, appVars, urlVars>>
otherThanApp == <<coreVars, uiVars, logVars, urlVars>>
otherThanUrl == <<coreVars, uiVars, logVars, appVars>>
vars == <<coreVars, extraVars>>

\* ------------------------------------------------- merge_empty_intervals
\* One element of the list.  kind "ok": [[t1, t2], url]; kind "notlist": an
\* element rejected by both structure checks (not a list, or shorter than
\* 2, or a malformed interval together with a url); kind "badinterval": a
\* two-element list whose url is None and whose interval is not a list of
\* two, which only the outer check (line 165) rejects.
BadSegments == {[kind |-> "notlist", interval |-> <<0, 0>>, url |-> None],
                [kind |-> "badinterval", interval |-> <<0, 0>>, url |-> None]}

Seg(interval, url) == [kind |-> "ok", interval |-> interval, url |-> url]

\* line 165: the structure check of the outer loop
ValidOuter(s) == s.kind = "ok"

\* line 177: the inner loop goes on while the element is a list of at
\* least two whose second entry is None
InRun(s) == s.kind \in {"ok", "badinterval"} /\ s.url = None

\* lines 174-179: first index j >= from that does not continue the run
RECURSIVE RunEnd(_, _)
RunEnd(segs, j) ==
    IF j <= Len(segs) /\ InRun(segs[j]) THEN RunEnd(segs, j + 1) ELSE j

Returned(out) == [raised |-> FALSE, out |-> out]
Raised == [raised |-> TRUE, out |-> <<>>]

ReplaceLast(seq, x) == [seq EXCEPT ![Len(seq)] = x]

\* a slip that drops the block without moving the previous segment's end
AbsorbRunKeepsEnd(merged, start_time, end_time) ==
    IF Len(merged) > 0 /\ merged[Len(merged)].url # None
    THEN LET prev == merged[Len(merged)] IN
         IF prev.interval[2] = start_time
         THEN ReplaceLast(merged, Seg(<<prev.interval[1], prev.interval[2]>>, prev.url))
         ELSE Append(merged, Seg(<<start_time, end_time>>, None))
    ELSE Append(merged, Seg(<<start_time, end_time>>, None))

\* a slip that hands the previous segment over to the None block
AbsorbRunDropsUrl(merged, start_time, end_time) ==
    IF Len(merged) > 0 /\ merged[Len(merged)].url # None
    THEN LET prev == merged[Len(merged)] IN
         IF prev.interval[2] = start_time
         THEN ReplaceLast(merged, Seg(<<prev.interval[1], end_time>>, None))
         ELSE Append(merged, Seg(<<start_time, end_time>>, None))
    ELSE Append(merged, Seg(<<start_time, end_time>>, None))

\* lines 186-197: what the first pass does with a None block [start, end]
AbsorbRun(merged, start_time, end_time) ==
    IF Len(merged) > 0 /\ merged[Len(merged)].url # None
    THEN LET prev == merged[Len(merged)] IN
         IF prev.interval[2] = start_time
         THEN ReplaceLast(merged, Seg(<<prev.interval[1], end_time>>, prev.url))
         ELSE Append(merged, Seg(<<start_time, end_time>>, None))
    ELSE Append(merged, Seg(<<start_time, end_time>>, None))

\* a slip that takes the end of the block's first element: interval[1]
RunEndTimeFirstOnly(segs, i, j) == segs[i].interval[2]

\* line 184: end_time = segments[j-1][0][1] (j > i always holds here)
RunEndTime(segs, i, j) == segs[j - 1].interval[2]

\* lines 161-203: the first loop, from index i with `merged` built so far
RECURSIVE FirstPass(_, _, _)
FirstPass(segs, i, merged) ==
    IF i > Len(segs) THEN Returned(merged)
    ELSE IF ~ValidOuter(segs[i]) THEN FirstPass(segs, i + 1, merged)
    ELSE IF segs[i].url = None
    THEN LET j == RunEnd(segs, i + 1)
             last == segs[j - 1]
         IN  \* line 184: segments[j-1][0][1] raises on a malformed interval
             IF last.kind # "ok" THEN Raised
             ELSE FirstPass(segs, j,
                            AbsorbRun(merged, segs[i].interval[1], RunEndTime(segs, i, j)))
    ELSE FirstPass(segs, i + 1, Append(merged, Seg(segs[i].interval, segs[i].url)))

\* a slip that keeps every None the final pass cannot absorb (k == 0 dropped)
FinalStepKeepsNone(final_merged, k, s) ==
    IF s.url = None /\ k > 1 /\ final_merged[Len(final_merged)].url # None
    THEN LET prev == final_merged[Len(final_merged)] IN
         ReplaceLast(final_merged, Seg(<<prev.interval[1], s.interval[2]>>, prev.url))
    ELSE Append(final_merged, s)

\* a slip that drops a left-over None without extending the previous clip
FinalStepNoExtend(final_merged, k, s) ==
    IF s.url = None /\ k > 1 /\ final_merged[Len(final_merged)].url # None
    THEN final_merged
    ELSE IF s.url # None THEN Append(final_merged, s)
    ELSE IF k = 1 /\ s.url = None THEN Append(final_merged, s)
    ELSE final_merged

\* a slip that drops a leading None (the k == 0 branch left out)
FinalStepDropsLeading(final_merged, k, s) ==
    IF s.url = None /\ k > 1 /\ final_merged[Len(final_merged)].url # None
    THEN LET prev == final_merged[Len(final_merged)] IN
         ReplaceLast(final_merged, Seg(<<prev.interval[1], s.interval[2]>>, prev.url))
    ELSE IF s.url # None THEN Append(final_merged, s)
    ELSE final_merged

\* a slip that keeps a left-over None that does not start at the end of
\* the previous clip
FinalStepKeepsGapNone(final_merged, k, s) ==
    IF s.url = None /\ k > 1 /\ final_merged[Len(final_merged)].url # None
    THEN LET prev == final_merged[Len(final_merged)] IN
         IF prev.interval[2] = s.interval[1]
         THEN ReplaceLast(final_merged, Seg(<<prev.interval[1], s.interval[2]>>, prev.url))
         ELSE Append(final_merged, s)
    ELSE IF s.url # None THEN Append(final_merged, s)
    ELSE IF k = 1 /\ s.url = None THEN Append(final_merged, s)
    ELSE final_merged

\* a slip that extends the previous clip to the start of the left-over
\* None only
FinalStepExtendsToStart(final_merged, k, s) ==
    IF s.url = None /\ k > 1 /\ final_merged[Len(final_merged)].url # None
    THEN LET prev == final_merged[Len(final_merged)] IN
         ReplaceLast(final_merged, Seg(<<prev.interval[1], s.interval[1]>>, prev.url))
    ELSE IF s.url # None THEN Append(final_merged, s)
    ELSE IF k = 1 /\ s.url = None THEN Append(final_merged, s)
    ELSE final_merged

\* lines 208-217: one iteration of the final pass
FinalStep(final_merged, k, s) ==
    IF s.url = None /\ k > 1 /\ final_merged[Len(final_merged)].url # None
    THEN LET prev == final_merged[Len(final_merged)] IN
         ReplaceLast(final_merged, Seg(<<prev.interval[1], s.interval[2]>>, prev.url))
    ELSE IF s.url # None THEN Append(final_merged, s)
    ELSE IF k = 1 /\ s.url = None THEN Append(final_merged, s)
    ELSE final_merged

\* lines 206-217: the final pass over merged, from index k
RECURSIVE FinalPass(_, _, _)
FinalPass(merged, k, final_merged) ==
    IF k > Len(merged) THEN final_merged
    ELSE FinalPass(merged, k + 1, FinalStep(final_merged, k, merged[k]))

\* lines 158-220
merge_empty_intervals(segs) ==
    IF Len(segs) = 0 THEN Returned(<<>>)
    ELSE LET first == FirstPass(segs, 1, <<>>) IN
         IF first.raised THEN Raised
         ELSE Returned(FinalPass(first.out, 1, <<>>))

\* ---- the same call on the heap: which list objects it stores into
\* The interval lists are objects: `heap` is the sequence of their values,
\* object k <= Len(segs) being the interval list of segs[k], owned by the
\* caller.  An element of merged / final_merged is a new pair
\* [interval, url] (lines 194, 197, 202, 214, 217) that holds a reference
\* iv to an interval object.  The pairs and the list handed in are never
\* stored into: the code has no assignment to segments[..] or to an
\* element of a pair.
Ref(iv, url) == [iv |-> iv, url |-> url]

\* a slip that moves the end of the previous interval list in place
\* (prev_interval[1] = end_time)
ExtendInPlace(heap, seq, end_time) ==
    [heap |-> [heap EXCEPT ![seq[Len(seq)].iv] = <<@[1], end_time>>],
     seq |-> seq]

\* lines 191 and 212: X[-1] = [[prev_interval[0], end_time], prev_url]
\* builds a new interval list and a new pair and stores into X, the
\* callee's own list
Extend(heap, seq, end_time) ==
    LET prev == seq[Len(seq)] IN
    [heap |-> Append(heap, <<heap[prev.iv][1], end_time>>),
     seq |-> ReplaceLast(seq, Ref(Len(heap) + 1, prev.url))]

\* lines 194, 197: merged.append([[start_time, end_time], None])
AppendNew(heap, seq, interval, url) ==
    [heap |-> Append(heap, interval), seq |-> Append(seq, Ref(Len(heap) + 1, url))]

\* lines 186-197 on the heap
AbsorbRunOnHeap(heap, merged, start_time, end_time) ==
    IF Len(merged) > 0 /\ merged[Len(merged)].url # None
    THEN IF heap[merged[Len(merged)].iv][2] = start_time
         THEN Extend(heap, merged, end_time)
         ELSE AppendNew(heap, merged, <<start_time, end_time>>, None)
    ELSE AppendNew(heap, merged, <<start_time, end_time>>, None)

\* lines 161-203 on the heap; line 202 appends a new pair that holds the
\* caller's interval list itself
RECURSIVE FirstPassOnHeap(_, _, _, _)
FirstPassOnHeap(segs, i, merged, heap) ==
    IF i > Len(segs) THEN [raised |-> FALSE, heap |-> heap, seq |-> merged]
    ELSE IF ~ValidOuter(segs[i]) THEN FirstPassOnHeap(segs, i + 1, merged, heap)
    ELSE IF segs[i].url = None
    THEN LET j == RunEnd(segs, i + 1) IN
         IF segs[j - 1].kind # "ok"
         THEN [raised |-> TRUE, heap |-> heap, seq |-> merged]
         ELSE LET r == AbsorbRunOnHeap(heap, merged, heap[i][1], heap[j - 1][2])
              IN FirstPassOnHeap(segs, j, r.seq, r.heap)
    ELSE FirstPassOnHeap(segs, i + 1, Append(merged, Ref(i, segs[i].url)), heap)

\* lines 206-217 on the heap; lines 214 and 217 append a new pair that
\* holds the interval list of merged[k]
RECURSIVE FinalPassOnHeap(_, _, _, _)
FinalPassOnHeap(merged, k, final_merged, heap) ==
    IF k > Len(merged) THEN [heap |-> heap, seq |-> final_merged]
    ELSE LET m == merged[k] IN
         IF m.url = None /\ k > 1 /\ final_merged[Len(final_merged)].url # None
         THEN LET r == Extend(heap, final_merged, heap[m.iv][2])
              IN FinalPassOnHeap(merged, k + 1, r.seq, r.heap)
         ELSE IF m.url # None \/ k = 1
         THEN FinalPassOnHeap(merged, k + 1, Append(final_merged, Ref(m.iv, m.url)), heap)
         ELSE FinalPassOnHeap(merged, k + 1, final_merged, heap)

\* lines 158-220 on the heap: the heap when the call ends and what it returns
MergeOnHeap(segs) ==
    LET heap0 == [k \in 1..Len(segs) |-> segs[k].interval] IN
    IF Len(segs) = 0 THEN [raised |-> FALSE, heap |-> heap0, seq |-> <<>>]
    ELSE LET first == FirstPassOnHeap(segs, 1, <<>>, heap0) IN
         IF first.raised THEN first
         ELSE LET final == FinalPassOnHeap(first.seq, 1, <<>>, first.heap)
              IN [raised |-> FALSE, heap |-> final.heap, seq |-> final.seq]

\* the caller's list as it reads after the call
InputAfter(segs) ==
    LET r == MergeOnHeap(segs) IN
    [k \in 1..Len(segs) |-> [segs[k] EXCEPT !.interval = r.heap[k]]]

\* the returned list, read through the heap
OutputOnHeap(segs) ==
    LET r == MergeOnHeap(segs) IN
    IF r.raised THEN Raised
    ELSE Returned([k \in 1..Len(r.seq) |-> Seg(r.heap[r.seq[k].iv], r.seq[k].url)])

\* End of the last well-formed element of a list (0 for none).
RECURSIVE LastEnd(_, _)
LastEnd(segs, k) ==
    IF k = 0 THEN 0
    ELSE IF segs[k].kind = "ok" THEN segs[k].interval[2]
    ELSE LastEnd(segs, k - 1)

\* The elements that may follow a list: a well-formed one that starts at
\* the end of the last one (adjacent), one later (a gap) or one earlier (an
\* overlap), with or without a url, or a malformed one.
NextSegments(segs) ==
    LET at == LastEnd(segs, Len(segs)) IN
    {Seg(<<s, s + d>>, u) : s \in {x \in {at - 1, at, at + 1} : x >= 0},
                            d \in 1..MaxSegLen, u \in Urls}
        \cup BadSegments

\* no call of merge_empty_intervals is under way
IdleMerge ==
    /\ segments = <<>>
    /\ merged_out = Returned(<<>>)
    /\ prev_out = Returned(<<>>)
    /\ mcalls = 0
    /\ segments_after = <<>>

\* ------------------------------------------------------ yolo_reframe_clip
\* Lengths are pixels.  The float arithmetic of the code is modelled by
\* exact rationals (integers scaled by a common denominator); int() of a
\* non-negative value is \div.
TargetHeight == 1920
AspectNum == 9
AspectDen == 16
TargetWidth == (TargetHeight * AspectNum) \div AspectDen      \* line 66
PadNum == 6             \* padding_factor = 1.2
PadDen == 5
TolDen == 100           \* tolerance 0.01

MaxW == 4               \* source widths 1..MaxW
MaxH == 4               \* source heights 1..MaxH

Abs(x) == IF x < 0 THEN -x ELSE x
Min2(a, b) == IF a < b THEN a ELSE b
Max2(a, b) == IF a > b THEN a ELSE b

\* the sources: every small size, and sizes at and next to the target aspect
SrcSizes == ((1..MaxW) \X (1..MaxH))
                \cup {<<AspectNum, AspectDen>>, <<5, 9>>, <<4, 7>>}

NoBox == [set |-> FALSE, box |-> <<0, 0, 0, 0>>]
Box(b) == [set |-> TRUE, box |-> b]

\* the largest box of one frame's detections: corners on the pixel grid,
\* up to one pixel beyond the frame
Boxes(w, h) ==
    {<<x1, y1, x2, y2>> \in ((-1)..(w + 1)) \X ((-1)..(h + 1))
                              \X ((-1)..(w + 1)) \X ((-1)..(h + 1)) :
        x1 < x2 /\ y1 < y2}

\* line 86: (x2 - x1) * (y2 - y1)
Area(b) == (b[3] - b[1]) * (b[4] - b[2])

\* line 79: abs(current_aspect - target_aspect) > 0.01
OffAspect(w, h) == TolDen * Abs(AspectDen * w - AspectNum * h) > AspectDen * h

\* lines 104, 138: current_aspect > target_aspect
Landscape(w, h) == AspectDen * w > AspectNum * h

\* a slip that replaces the anchor also by a box of the same area
UpdateAnchorOnTie(anchor, d) ==
    IF d.set /\ (~anchor.set \/ Area(d.box) >= Area(anchor.box)) THEN d ELSE anchor

\* lines 84-92: the anchor after a frame whose largest box is d
UpdateAnchor(anchor, d) ==
    IF d.set /\ (~anchor.set \/ Area(d.box) > Area(anchor.box)) THEN d ELSE anchor

\* lines 108-114 and 120-126 on one axis: a window of min(len, want) around
\* the centre c2/2, shifted into [0, len], then truncated by int() (line
\* 129). want = want_num/want_den; everything is scaled by 2*want_den.
ShiftedWindow(c2, len, want_num, want_den) ==
    LET S == 2 * want_den
        size == Min2(S * len, 2 * want_num)
        lo0 == Max2(0, c2 * want_den - size \div 2)
        hi == Min2(S * len, lo0 + size)
        lo == Max2(0, hi - size)
    IN <<lo \div S, hi \div S>>

\* lines 97-129: the window around the box to use, (x1, y1, x2, y2)
GuidedWindow(w, h, b) ==
    IF Landscape(w, h)
    THEN LET x == ShiftedWindow(b[1] + b[3], w, h * AspectNum * PadNum,
                                AspectDen * PadDen)
         IN <<x[1], 0, x[2], h>>
    ELSE LET y == ShiftedWindow(b[2] + b[4], h, w * AspectDen * PadNum,
                                AspectNum * PadDen)
         IN <<0, y[1], w, y[2]>>

\* line 131
ValidWindow(c) == c[2] < c[4] /\ c[1] < c[3]

\* lines 139-142: the centre crop of a landscape frame, frame[:, x1:x1+new_w]
CenterWindow(w, h) ==
    LET new_w == (h * AspectNum) \div AspectDen
        x_center == w \div 2
        x1 == Max2(0, x_center - new_w \div 2)
    IN <<x1, 0, x1 + new_w, h>>

Emitted(path, crop, size) ==
    [status |-> "emitted", path |-> path, crop |-> crop, size |-> size]
FrameRaised(path, crop) ==
    [status |-> "raised", path |-> path, crop |-> crop, size |-> <<0, 0>>]
NoFrame == [status |-> "none", path |-> "none", crop |-> <<0, 0, 0, 0>>, size |-> <<0, 0>>]

\* a slip that returns the frame as it is, without padding it
PadToTargetNoPad(size) == size

\* lines 149-162: the final check pads a frame that is not of the target
\* size onto a black canvas when it fits, and returns it as it is otherwise
PadToTarget(size) ==
    LET fw == size[1]
        fh == size[2]
        paste_x == (TargetWidth - fw) \div 2
        paste_y == (TargetHeight - fh) \div 2
    IN IF fh # TargetHeight \/ fw # TargetWidth
       THEN IF /\ paste_y >= 0 /\ paste_y + fh <= TargetHeight
               /\ paste_x >= 0 /\ paste_x + fw <= TargetWidth
            THEN <<TargetWidth, TargetHeight>>
            ELSE size
       ELSE size

\* lines 137-146: no frame from the guided crop
FallbackFrame(w, h) ==
    IF Landscape(w, h)
    THEN LET c == CenterWindow(w, h) IN
         \* cv2.resize raises on an empty crop
         IF c[1] < Min2(w, c[3])
         THEN Emitted("center", c, PadToTarget(<<TargetWidth, TargetHeight>>))
         ELSE FrameRaised("center", c)
    ELSE LET fw == (TargetHeight * w) \div h IN
         IF fw > 0
         THEN Emitted("scale", <<0, 0, w, h>>, PadToTarget(<<fw, TargetHeight>>))
         ELSE FrameRaised("scale", <<0, 0, w, h>>)

\* lines 68-162: process_frame on a frame of w x h for which the detector,
\* when it is run, reports d as the largest box; anchor is the closure
\* variable after lines 84-92
FrameOf(w, h, anchor, d) ==
    LET bbox_to_use == IF anchor.set THEN anchor ELSE d IN
    IF OffAspect(w, h) /\ bbox_to_use.set
          /\ ValidWindow(GuidedWindow(w, h, bbox_to_use.box))
    THEN Emitted("guided", GuidedWindow(w, h, bbox_to_use.box),
                 PadToTarget(<<TargetWidth, TargetHeight>>))
    ELSE FallbackFrame(w, h)

\* line 62: clip.resize(height=target_height) keeps the aspect
ResizedFrame(w, h) ==
    Emitted("resize", <<0, 0, w, h>>, <<(w * TargetHeight) \div h, TargetHeight>>)

\* the frames of the clips reframed side by side: a landscape source
ClipSize == <<MaxW, MaxH \div 2>>

\* their detections: boxes inside the frame that span its height
ClipBoxes ==
    {b \in Boxes(ClipSize[1], ClipSize[2]) :
        b[1] >= 0 /\ b[3] <= ClipSize[1] /\ b[2] = 0 /\ b[4] = ClipSize[2]}

\* a slip that keeps the anchor in one variable shared by all the calls
AnchorCellShared(c) == "clipA"

\* line 65: largest_object_bbox is a local of the call that reframes clip
\* c, captured by that call's process_frame (line 81)
AnchorCell(c) == c

\* no clip is being reframed side by side with another
IdleClips ==
    /\ clip_mode = [c \in Media |-> "idle"]
    /\ cells = [c \in Media |-> NoBox]
    /\ clip_frame = [c \in Media |-> NoFrame]
    /\ last_run = [clip |-> None, op |-> "none", before |-> NoBox]

\* no clip is being reframed
IdleReframe ==
    /\ src = <<0, 0>>
    /\ yolo_loaded = FALSE
    /\ largest_object_bbox = NoBox
    /\ rmode = "idle"
    /\ frame_out = NoFrame

\* ------------------------------------------------------- get_output_media
MaxAudio == 3           \* audio durations 1..MaxAudio
MaxCaptions == 1        \* longest caption track
MaxClips == 2           \* longest background timeline handed to get_output_media

OUTPUT_FILE_NAME == "rendered_video.mp4"

NoDur == -1             \* a duration or an end that is None

\* moviepy's Clip.set_start, set_duration and set_end (line 211)
set_start(c, t) ==
    IF c.duration # NoDur THEN [c EXCEPT !.start = t, !.end = t + c.duration]
    ELSE IF c.end # NoDur THEN [c EXCEPT !.start = t, !.duration = c.end - t]
    ELSE [c EXCEPT !.start = t]
set_duration(c, d) ==
    [c EXCEPT !.duration = d, !.end = IF d = NoDur THEN NoDur ELSE c.start + d]
set_end(c, t) == [c EXCEPT !.end = t, !.duration = t - c.start]

\* line 202: the clip of a downloaded file, d0 long
VideoFileClip(k, d0) == [seg |-> k, start |-> 0, duration |-> d0, end |-> d0]

\* line 211: reframed_clip.set_start(t1).set_duration(t2 - t1).set_end(t2)
Timed(c, t1, t2) == set_end(set_duration(set_start(c, t1), t2 - t1), t2)

\* a slip that gives up on the clips loaded so far when one element fails
ClipsAfterFailureNone(clips) == <<>>

\* lines 214-217: the handler logs and goes on with the clips loaded so far
ClipsAfterFailure(clips) == clips

\* a slip that takes the end of the first clip
MaxEndOfFirst(clips) == clips[1].end

\* line 251: max(vc.end for vc in visual_clips if vc.end is not None)
MaxEnd(clips) ==
    LET ends == {clips[k].end : k \in 1..Len(clips)} \ {NoDur} IN
    CHOOSE m \in ends : \A e \in ends : e <= m

NoVideo == [set |-> FALSE, duration |-> NoDur, clips |-> <<>>, captions |-> <<>>,
            audio |-> NoDur]
Video(duration, clips, captions, audio) ==
    [set |-> TRUE, duration |-> duration, clips |-> clips, captions |-> captions,
     audio |-> audio]

\* line 262: the duration of CompositeAudioClip(audio_clips)
AudioDuration(audios) == audios[1].duration

\* a slip that always takes the audio's duration
FinalDurationAudioOnly(video_duration, audio_duration) == audio_duration

\* a slip that forgets to trim the video to the audio
FinalDurationNoTrim(video_duration, audio_duration) == video_duration

\* line 265: min(final_video.duration, final_audio.duration) if
\* final_video.duration else final_audio.duration
FinalDuration(video_duration, audio_duration) ==
    IF video_duration # NoDur /\ video_duration # 0
    THEN Min2(video_duration, audio_duration)
    ELSE audio_duration

\* a slip that composes whatever there is, also without any background clip
ComposeAlways(clips, audios, captions) ==
    LET d == IF Len(audios) > 0 /\ AudioDuration(audios) # NoDur
             THEN AudioDuration(audios) ELSE 0
    IN Video(d, clips, captions, IF Len(audios) > 0 THEN d ELSE NoDur)

\* a slip that falls back on the caption timings when no clip was loaded
WithoutVisualClipsFromCaptions(audios, captions) ==
    LET ends == {captions[k].end : k \in 1..Len(captions)} \ {NoDur} IN
    IF Len(audios) = 0 /\ ends # {}
    THEN Video(CHOOSE m \in ends : \A e \in ends : e <= m, <<>>, captions, NoDur)
    ELSE NoVideo

\* lines 245-247: without a visual clip there is no final_video, whatever
\* the audio and the captions
WithoutVisualClips(audios, captions) == NoVideo

\* lines 245-288: the final composition (its calls are taken not to raise)
Compose(clips, audios, captions) ==
    IF Len(clips) = 0 THEN WithoutVisualClips(audios, captions)
    ELSE
      LET max_visual_duration == MaxEnd(clips)
          with_captions == Video(max_visual_duration, clips, captions, NoDur)
          composed ==
            IF Len(audios) > 0
            THEN IF AudioDuration(audios) # NoDur
                 THEN LET final_duration ==
                            FinalDuration(with_captions.duration, AudioDuration(audios))
                      IN Video(final_duration, clips, captions, final_duration)
                 ELSE IF with_captions.duration = NoDur
                      THEN Video(max_visual_duration, clips, captions, NoDur)
                      ELSE with_captions
            ELSE IF with_captions.duration = NoDur
            THEN LET ends == {captions[k].end : k \in 1..Len(captions)} \ {NoDur}
                     max_caption_end ==
                         IF Len(captions) > 0
                         THEN CHOOSE m \in ends : \A e \in ends : e <= m ELSE 0
                 IN IF max_caption_end > 0
                    THEN Video(max_caption_end, clips, captions, NoDur)
                    ELSE with_captions
            ELSE with_captions
      IN IF composed.duration = NoDur THEN NoVideo ELSE composed

\* the part of [0, D) in which a clip of the composite is on screen
\* (<<0, 0>> when it is never on screen)
Shown(c, video) ==
    IF video.set /\ c.start < video.duration /\ c.start < c.end
    THEN <<c.start, Min2(c.end, video.duration)>>
    ELSE <<0, 0>>

\* get_output_media is not running
IdleRender ==
    /\ background_video_data = <<>>
    /\ timed_captions = <<>>
    /\ seg_i = 1
    /\ outcomes = <<>>
    /\ visual_clips = <<>>
    /\ temp_files = <<>>
    /\ tmp_on_disk = {}
    /\ audio_clips = <<>>
    /\ caption_clips = <<>>
    /\ final_video = NoVideo
    /\ output_written = FALSE
    /\ out_file = "absent"
    /\ out_file_before = "absent"
    /\ writer_calls = 0
    /\ returned = None
    /\ pc = "idle"

\* ------------------------------------------- run_video_script (gradio_app)
MaxLogLines == 2        \* log lines streamed by one run

VIDEO_OUTPUT_FILENAME == "rendered_video.mp4"
Keys == {"GOOGLE_API_KEY", "PEXELS_KEY", "ELEVENLABS_API_KEY"}
NoProc == [returncode |-> -1, render |-> "none"]

\* run_video_script is not running
IdleUi ==
    /\ ui_pc = "idle"
    /\ ui_env = {}
    /\ ui_personality = "Manual"
    /\ ui_topic = ""
    /\ ui_button = "none"
    /\ ui_video = None
    /\ ui_files = [video |-> "absent", audio |-> "absent"]
    /\ ui_files_before = ui_files
    /\ ui_launched = FALSE
    /\ ui_proc = NoProc
    /\ ui_exit = "none"
    /\ ui_lines = 0

\* ------------------------------------- log streaming (gradio_app)
MaxStreamLines == 2     \* lines the process writes to one of its streams

Streams == {"stdout", "stderr"}

\* no process is being read
IdleLog ==
    /\ log_pc = "idle"
    /\ log_queue = <<>>
    /\ lines_read = [s \in Streams |-> 0]
    /\ reader_done = [s \in Streams |-> FALSE]
    /\ stdout_finished = FALSE
    /\ stderr_finished = FALSE
    /\ full_log = <<>>
    /\ error_output = <<>>

\* ------------------------------------------------- the pipeline (app.py)
\* timed_background_urls = None (line 78)
NoTimeline == [set |-> FALSE, merged |-> FALSE, segs |-> <<>>]

\* app.py is not running
IdleApp ==
    /\ app_pc = "idle"
    /\ app_audio_file = "absent"
    /\ app_script = None
    /\ app_success = FALSE
    /\ app_captions = None
    /\ app_captions_from = "none"
    /\ app_terms = None
    /\ app_timeline = NoTimeline
    /\ app_render_calls = <<>>
    /\ app_trace = <<>>
    /\ app_exit = "running"

\* ------------------------------ generate_video_url (background videos)
MaxSearches == 3        \* elements of timed_video_searches
MaxFiles == 2           \* video files in one search response

\* generate_video_url is not running
IdleUrls ==
    /\ url_pc = "idle"
    /\ timed_video_searches = <<>>
    /\ kayla_image_url = None
    /\ url_index = 1
    /\ used_links = <<>>
    /\ timed_video_urls = <<>>
    /\ url_how = <<>>

IdleCore == IdleMerge /\ IdleReframe /\ IdleRender /\ IdleClips
IdleExtra == IdleUi /\ IdleLog /\ IdleApp /\ IdleUrls

\* ------------------------------------- the resolver as a state machine
InitMerge == IdleMerge /\ IdleReframe /\ IdleRender /\ IdleClips /\ IdleExtra

\* The producer of the candidates appends one more element to the list.
AddCandidate ==
    /\ mcalls = 0
    /\ Len(segments) < MaxSegs
    /\ \E x \in NextSegments(segments) : segments' = Append(segments, x)
    /\ UNCHANGED <<merged_out, prev_out, mcalls, segments_after>>
    /\ UNCHANGED <<reframeVars, renderVars, clipVars, extraVars>>

\* A caller resolves the candidates.
CallMerge ==
    /\ mcalls = 0
    /\ merged_out' = merge_empty_intervals(segments)
    /\ segments_after' = InputAfter(segments)
    /\ mcalls' = 1
    /\ UNCHANGED <<segments, prev_out>>
    /\ UNCHANGED <<reframeVars, renderVars, clipVars, extraVars>>

\* A caller resolves the returned timeline again.
CallMergeAgain ==
    /\ mcalls = 1
    /\ ~merged_out.raised
    /\ segments' = merged_out.out
    /\ prev_out' = merged_out
    /\ merged_out' = merge_empty_intervals(merged_out.out)
    /\ segments_after' = InputAfter(merged_out.out)
    /\ mcalls' = 2
    /\ UNCHANGED <<reframeVars, renderVars, clipVars, extraVars>>

NextMerge == AddCandidate \/ CallMerge \/ CallMergeAgain

SpecMerge == InitMerge /\ [][NextMerge]_vars

\* ------------------------------------- the reframer as a state machine
\* lines 20-25 and the clip handed to yolo_reframe_clip
InitReframe ==
    /\ IdleMerge
    /\ IdleRender
    /\ IdleClips
    /\ IdleExtra
    /\ src \in SrcSizes
    /\ yolo_loaded \in BOOLEAN
    /\ largest_object_bbox = NoBox
    /\ rmode = "idle"
    /\ frame_out = NoFrame

\* lines 53-67, 165-167: the call of yolo_reframe_clip
ReframeClip ==
    /\ rmode = "idle"
    /\ rmode' = IF yolo_loaded THEN "fl" ELSE "resize"
    /\ largest_object_bbox' = NoBox
    /\ UNCHANGED <<src, yolo_loaded, frame_out>>
    /\ UNCHANGED <<mergeVars, renderVars, clipVars, extraVars>>

\* a frame of the clip returned by line 62 is requested
ResizeFrame ==
    /\ rmode = "resize"
    /\ frame_out' = ResizedFrame(src[1], src[2])
    /\ UNCHANGED <<src, yolo_loaded, largest_object_bbox, rmode>>
    /\ UNCHANGED <<mergeVars, renderVars, clipVars, extraVars>>

\* a frame of the clip returned by line 165 is requested: process_frame
\* runs, with the detector reporting no box or any box as the largest
ProcessFrame ==
    /\ rmode = "fl"
    /\ \/ /\ OffAspect(src[1], src[2])
          /\ \E d \in {NoBox} \cup {Box(b) : b \in Boxes(src[1], src[2])} :
                /\ largest_object_bbox' = UpdateAnchor(largest_object_bbox, d)
                /\ frame_out' = FrameOf(src[1], src[2],
                                        UpdateAnchor(largest_object_bbox, d), d)
       \/ /\ ~OffAspect(src[1], src[2])
          /\ largest_object_bbox' = largest_object_bbox
          /\ frame_out' = FrameOf(src[1], src[2], largest_object_bbox, NoBox)
    /\ UNCHANGED <<src, yolo_loaded, rmode>>
    /\ UNCHANGED <<mergeVars, renderVars, clipVars, extraVars>>

NextReframe == ReframeClip \/ ResizeFrame \/ ProcessFrame

SpecReframe == InitReframe /\ [][NextReframe]_vars


\* ------------------------- two clips reframed side by side (lines 185-212)
\* Two elements of the background have been downloaded; yolo_model is
\* loaded.  The frames of the reframed clips are requested later, by the
\* writer, in any order.
InitClips ==
    /\ IdleMerge
    /\ IdleRender
    /\ src = <<0, 0>>
    /\ yolo_loaded = TRUE
    /\ largest_object_bbox = NoBox
    /\ rmode = "idle"
    /\ frame_out = NoFrame
    /\ IdleClips
    /\ IdleExtra

\* line 207: yolo_reframe_clip(video_clip) for clip c; line 65 sets the
\* call's largest_object_bbox to None
ReframeClipOf(c) ==
    /\ clip_mode[c] = "idle"
    /\ clip_mode' = [clip_mode EXCEPT ![c] = "fl"]
    /\ cells' = [cells EXCEPT ![AnchorCell(c)] = NoBox]
    /\ last_run' = [clip |-> c, op |-> "call", before |-> NoBox]
    /\ UNCHANGED clip_frame
    /\ UNCHANGED <<mergeVars, reframeVars, renderVars, extraVars>>

\* a frame of the reframed clip c is requested: process_frame of that call
\* runs, with the detector reporting no box or any box as the largest
ProcessFrameOf(c) ==
    /\ clip_mode[c] = "fl"
    /\ \E d \in {NoBox} \cup {Box(b) : b \in ClipBoxes} :
          LET before == cells[AnchorCell(c)]
              anchor == IF OffAspect(ClipSize[1], ClipSize[2])
                        THEN UpdateAnchor(before, d) ELSE before
          IN /\ cells' = [cells EXCEPT ![AnchorCell(c)] = anchor]
             /\ clip_frame' = [clip_frame EXCEPT
                                  ![c] = FrameOf(ClipSize[1], ClipSize[2], anchor, d)]
             /\ last_run' = [clip |-> c, op |-> "frame", before |-> before]
    /\ UNCHANGED clip_mode
    /\ UNCHANGED <<mergeVars, reframeVars, renderVars, extraVars>>

NextClips == \E c \in Media : ReframeClipOf(c) \/ ProcessFrameOf(c)

SpecClips == InitClips /\ [][NextClips]_vars

\* ---------------------------------- get_output_media as a state machine
\* The background timelines handed in: elements that follow one another
\* from 0 on, each with a url or None.
BackgroundSegments(segs) ==
    LET at == LastEnd(segs, Len(segs)) IN
    {Seg(<<at, at + d>>, u) : d \in 1..MaxSegLen, u \in {None, "clipA"}}

\* The caption tracks handed in: captions that follow one another from 0 on.
CaptionTracks == {[k \in 1..n |-> [start |-> k - 1, end |-> k]] : n \in 0..MaxCaptions}

\* line 171: the call, with rendered_video.mp4 of an earlier run lying
\* there or not
InitRender ==
    /\ IdleMerge
    /\ IdleReframe
    /\ IdleClips
    /\ IdleExtra
    /\ background_video_data = <<>>
    /\ timed_captions \in CaptionTracks
    /\ seg_i = 1
    /\ outcomes = <<>>
    /\ visual_clips = <<>>
    /\ temp_files = <<>>
    /\ tmp_on_disk = {}
    /\ audio_clips = <<>>
    /\ caption_clips = <<>>
    /\ final_video = NoVideo
    /\ output_written = FALSE
    /\ out_file \in {"absent", "stale"}
    /\ out_file_before = out_file
    /\ writer_calls = 0
    /\ returned = None
    /\ pc = "args"

\* The caller puts one more element into the timeline it hands in.
AddBackground ==
    /\ pc = "args"
    /\ Len(background_video_data) < MaxClips
    /\ \E x \in BackgroundSegments(background_video_data) :
          background_video_data' = Append(background_video_data, x)
    /\ UNCHANGED <<timed_captions, seg_i, outcomes, visual_clips, temp_files,
                   tmp_on_disk, audio_clips, caption_clips, final_video,
                   output_written, out_file, out_file_before, writer_calls,
                   returned, pc>>
    /\ UNCHANGED <<mergeVars, reframeVars, clipVars, extraVars>>

\* lines 171-182: get_output_media starts
EnterRender ==
    /\ pc = "args"
    /\ pc' = "segments"
    /\ UNCHANGED <<background_video_data, timed_captions, seg_i, outcomes,
                   visual_clips, temp_files, tmp_on_disk, audio_clips,
                   caption_clips, final_video, output_written, out_file,
                   out_file_before, writer_calls, returned>>
    /\ UNCHANGED <<mergeVars, reframeVars, clipVars, extraVars>>

\* lines 185-217: one iteration of the loop over background_video_data
ProcessSegment ==
    /\ pc = "segments"
    /\ seg_i <= Len(background_video_data)
    /\ LET s == background_video_data[seg_i] IN
       \/ \* lines 186-188: no url
          /\ s.url = None
          /\ outcomes' = Append(outcomes, "skipped")
          /\ seg_i' = seg_i + 1
          /\ UNCHANGED <<visual_clips, temp_files, tmp_on_disk, pc>>
       \/ \* lines 193-212: downloaded, decoded and reframed
          /\ s.url # None
          /\ \E d0 \in 1..MaxSegLen :
                visual_clips' = Append(visual_clips,
                                       Timed(VideoFileClip(seg_i, d0),
                                             s.interval[1], s.interval[2]))
          /\ temp_files' = Append(temp_files, seg_i)
          /\ tmp_on_disk' = tmp_on_disk \cup {seg_i}
          /\ outcomes' = Append(outcomes, "loaded")
          /\ seg_i' = seg_i + 1
          /\ UNCHANGED pc
       \/ \* lines 199-207 raise, lines 214-217 (the temporary file exists
          \* and is registered: lines 193-196 come first)
          /\ s.url # None
          /\ visual_clips' = ClipsAfterFailure(visual_clips)
          /\ temp_files' = Append(temp_files, seg_i)
          /\ tmp_on_disk' = tmp_on_disk \cup {seg_i}
          /\ outcomes' = Append(outcomes, "failed")
          /\ seg_i' = seg_i + 1
          /\ UNCHANGED pc
       \/ \* line 199: requests.get (line 34, no timeout) or iter_content
          \* (line 36) never returns; the loop is blocked in download_file
          /\ s.url # None
          /\ temp_files' = Append(temp_files, seg_i)
          /\ tmp_on_disk' = tmp_on_disk \cup {seg_i}
          /\ pc' = "stalled"
          /\ UNCHANGED <<visual_clips, outcomes, seg_i>>
    /\ UNCHANGED <<background_video_data, timed_captions, audio_clips, caption_clips,
                   final_video, output_written, out_file, out_file_before,
                   writer_calls, returned>>
    /\ UNCHANGED <<mergeVars, reframeVars, clipVars, extraVars>>

\* lines 219-228: the audio file is missing, fails to load, or loads with
\* a duration (or with none)
ProcessAudio ==
    /\ pc = "segments"
    /\ seg_i > Len(background_video_data)
    /\ \/ audio_clips' = <<>>
       \/ \E a \in (1..MaxAudio) \cup {NoDur} : audio_clips' = <<[duration |-> a]>>
    /\ pc' = "captions"
    /\ UNCHANGED <<background_video_data, timed_captions, seg_i, outcomes,
                   visual_clips, temp_files, tmp_on_disk, caption_clips, final_video,
                   output_written, out_file, out_file_before, writer_calls, returned>>
    /\ UNCHANGED <<mergeVars, reframeVars, clipVars, extraVars>>

\* the captions whose TextClip was created, in order
RECURSIVE KeptCaptions(_, _, _)
KeptCaptions(caps, ok, k) ==
    IF k > Len(caps) THEN <<>>
    ELSE IF k \in ok
    THEN <<Timed([seg |-> k, start |-> 0, duration |-> NoDur, end |-> NoDur],
                 caps[k].start, caps[k].end)>> \o KeptCaptions(caps, ok, k + 1)
    ELSE KeptCaptions(caps, ok, k + 1)

\* lines 230-242: the loop over timed_captions; TextClip raises for some
ProcessCaptions ==
    /\ pc = "captions"
    /\ \E ok \in SUBSET (1..Len(timed_captions)) :
          caption_clips' = KeptCaptions(timed_captions, ok, 1)
    /\ pc' = "compose"
    /\ UNCHANGED <<background_video_data, timed_captions, seg_i, outcomes,
                   visual_clips, temp_files, tmp_on_disk, audio_clips, final_video,
                   output_written, out_file, out_file_before, writer_calls, returned>>
    /\ UNCHANGED <<mergeVars, reframeVars, clipVars, extraVars>>

\* lines 244-288
ComposeFinal ==
    /\ pc = "compose"
    /\ final_video' = Compose(visual_clips, audio_clips, caption_clips)
    /\ pc' = "write"
    /\ UNCHANGED <<background_video_data, timed_captions, seg_i, outcomes,
                   visual_clips, temp_files, tmp_on_disk, audio_clips, caption_clips,
                   output_written, out_file, out_file_before, writer_calls, returned>>
    /\ UNCHANGED <<mergeVars, reframeVars, clipVars, extraVars>>

\* lines 290-300
WriteOutput ==
    /\ pc = "write"
    /\ \/ \* line 292: nothing to write
          /\ ~final_video.set
          /\ UNCHANGED <<output_written, out_file, writer_calls>>
       \/ \* lines 295-297: write_videofile returns
          /\ final_video.set
          /\ writer_calls' = writer_calls + 1
          /\ out_file' = "complete"
          /\ output_written' = TRUE
       \/ \* lines 298-300: write_videofile raises, before or after it has
          \* opened the file
          /\ final_video.set
          /\ writer_calls' = writer_calls + 1
          /\ out_file' \in {out_file, "partial"}
          /\ output_written' = FALSE
    /\ pc' = "cleanup"
    /\ UNCHANGED <<background_video_data, timed_captions, seg_i, outcomes,
                   visual_clips, temp_files, tmp_on_disk, audio_clips, caption_clips,
                   final_video, out_file_before, returned>>
    /\ UNCHANGED <<mergeVars, reframeVars, clipVars, extraVars>>

\* lines 302-311; os.remove may raise for a file (lines 308-309), which
\* then stays
CleanupAndReturn ==
    /\ pc = "cleanup"
    /\ \E removed \in SUBSET {temp_files[k] : k \in 1..Len(temp_files)} :
          tmp_on_disk' = tmp_on_disk \ removed
    /\ returned' = IF output_written /\ out_file # "absent"
                   THEN OUTPUT_FILE_NAME ELSE None
    /\ pc' = "done"
    /\ UNCHANGED <<background_video_data, timed_captions, seg_i, outcomes,
                   visual_clips, temp_files, audio_clips, caption_clips, final_video,
                   output_written, out_file, out_file_before, writer_calls>>
    /\ UNCHANGED <<mergeVars, reframeVars, clipVars, extraVars>>

NextRender ==
    \/ AddBackground \/ EnterRender \/ ProcessSegment \/ ProcessAudio
    \/ ProcessCaptions \/ ComposeFinal \/ WriteOutput \/ CleanupAndReturn

SpecRender == InitRender /\ [][NextRender]_vars

\* get_output_media runs in one thread that is never suspended for good:
\* a step that can be taken is taken
SpecRenderFair == InitRender /\ [][NextRender]_vars /\ WF_vars(NextRender)

\* ------------------------------- run_video_script as a state machine
Personalities == {"Manual", "Kayla", "Other"}
Topics == {"", " ", "topic"}
VideoBefore == {"absent", "old"}
AudioBefore == {"absent", "old"}

\* topic.strip() == ""
Blank(t) == t \in {"", " "}

InitGradio ==
    /\ IdleCore
    /\ IdleLog
    /\ IdleApp
    /\ IdleUrls
    /\ ui_pc = "start"
    /\ ui_env \in SUBSET Keys
    /\ ui_personality \in Personalities
    /\ ui_topic \in Topics
    /\ ui_button = "none"
    /\ ui_video = None
    /\ ui_files \in [video : VideoBefore, audio : AudioBefore]
    /\ ui_files_before = ui_files
    /\ ui_launched = FALSE
    /\ ui_proc = NoProc
    /\ ui_exit = "none"
    /\ ui_lines = 0

\* a yield of the generator followed by return
YieldAndReturn(button, video, exit) ==
    /\ ui_button' = button
    /\ ui_video' = video
    /\ ui_exit' = exit
    /\ ui_pc' = "returned"

\* lines 319-327
CheckKeys ==
    /\ ui_pc = "start"
    /\ \/ /\ ~ {"GOOGLE_API_KEY", "PEXELS_KEY"} \subseteq ui_env
          /\ YieldAndReturn("generating", None, "missing_keys")
       \/ /\ {"GOOGLE_API_KEY", "PEXELS_KEY"} \subseteq ui_env
          /\ ui_pc' = "topic"
          /\ UNCHANGED <<ui_button, ui_video, ui_exit>>
    /\ UNCHANGED <<ui_env, ui_personality, ui_topic, ui_files, ui_files_before,
                   ui_launched, ui_proc, ui_lines>>
    /\ UNCHANGED otherThanUi

\* lines 330-352; get_kayla_topic returns an error message or a title
DetermineTopic ==
    /\ ui_pc = "topic"
    /\ \/ /\ ui_personality = "Kayla"
          /\ \/ /\ YieldAndReturn("enabled", None, "kayla_error")
                /\ UNCHANGED ui_topic
             \/ /\ ui_pc' = "clean"
                /\ ui_topic' = "topic"
                /\ UNCHANGED <<ui_button, ui_video, ui_exit>>
       \/ /\ ui_personality = "Manual"
          /\ Blank(ui_topic)
          /\ YieldAndReturn("enabled", None, "empty_topic")
          /\ UNCHANGED ui_topic
       \/ /\ ui_personality = "Manual"
          /\ ~ Blank(ui_topic)
          /\ ui_pc' = "clean"
          /\ UNCHANGED <<ui_button, ui_video, ui_exit, ui_topic>>
       \/ /\ ui_personality \notin {"Kayla", "Manual"}
          /\ YieldAndReturn("enabled", None, "unknown_personality")
          /\ UNCHANGED ui_topic
    /\ UNCHANGED <<ui_env, ui_personality, ui_files, ui_files_before,
                   ui_launched, ui_proc, ui_lines>>
    /\ UNCHANGED otherThanUi

\* os.remove of an existing file: it is removed, or os.remove raises and
\* the file stays (lines 362-368)
AfterRemove(f) == IF f = "absent" THEN {"absent"} ELSE {"absent", f}

\* lines 355-368
CleanPrevious ==
    /\ ui_pc = "clean"
    /\ \E v \in AfterRemove(ui_files.video), a \in AfterRemove(ui_files.audio) :
          ui_files' = [video |-> v, audio |-> a]
    /\ ui_pc' = "eleven"
    /\ UNCHANGED <<ui_env, ui_personality, ui_topic, ui_button, ui_video,
                   ui_files_before, ui_launched, ui_proc, ui_exit, ui_lines>>
    /\ UNCHANGED otherThanUi

\* lines 388-394
CheckEleven ==
    /\ ui_pc = "eleven"
    /\ \/ /\ "ELEVENLABS_API_KEY" \notin ui_env
          /\ YieldAndReturn("enabled", None, "missing_eleven")
       \/ /\ "ELEVENLABS_API_KEY" \in ui_env
          /\ ui_pc' = "launch"
          /\ UNCHANGED <<ui_button, ui_video, ui_exit>>
    /\ UNCHANGED <<ui_env, ui_personality, ui_topic, ui_files, ui_files_before,
                   ui_launched, ui_proc, ui_lines>>
    /\ UNCHANGED otherThanUi

\* lines 406-422: Popen starts the process, or raises and the handlers of
\* lines 473-480 yield the enabled button
Launch ==
    /\ ui_pc = "launch"
    /\ \/ /\ ui_launched' = TRUE
          /\ ui_pc' = "stream"
          /\ UNCHANGED <<ui_button, ui_video, ui_exit>>
       \/ /\ YieldAndReturn("enabled", None, "popen_error")
          /\ UNCHANGED ui_launched
    /\ UNCHANGED <<ui_env, ui_personality, ui_topic, ui_files, ui_files_before,
                   ui_proc, ui_lines>>
    /\ UNCHANGED otherThanUi

\* lines 428-443: one line of the process is yielded with the disabled button
StreamLine ==
    /\ ui_pc = "stream"
    /\ ui_lines < MaxLogLines
    /\ ui_lines' = ui_lines + 1
    /\ ui_button' = "generating"
    /\ ui_video' = None
    /\ UNCHANGED <<ui_pc, ui_env, ui_personality, ui_topic, ui_files, ui_files_before,
                   ui_launched, ui_proc, ui_exit>>
    /\ UNCHANGED otherThanUi

\* how app.py can end: its return code, what its render reported, and the
\* files it leaves (app.py 46-57 and 93-108, get_output_media 290-311)
ProcessOutcomes(video, audio) ==
    {[returncode |-> 1, render |-> "none", video |-> video, audio |-> audio]}
    \cup
    {[returncode |-> 0, render |-> o[1], video |-> o[2], audio |-> a] :
        o \in {<<"skipped", video>>, <<"failed", video>>,
               <<"failed", "partial">>, <<"ok", "complete">>},
        a \in {audio, "new"}}

\* the path yielded at lines 453-471
VideoPath(returncode, video) ==
    IF returncode # 0 THEN None
    ELSE IF video # "absent" THEN VIDEO_OUTPUT_FILENAME
    ELSE None

\* lines 449-471 and 481-483: the process has ended
Finish ==
    /\ ui_pc = "stream"
    /\ \E o \in ProcessOutcomes(ui_files.video, ui_files.audio) :
          /\ ui_proc' = [returncode |-> o.returncode, render |-> o.render]
          /\ ui_files' = [video |-> o.video, audio |-> o.audio]
          /\ YieldAndReturn("enabled", VideoPath(o.returncode, o.video), "finished")
    /\ UNCHANGED <<ui_env, ui_personality, ui_topic, ui_files_before, ui_launched, ui_lines>>
    /\ UNCHANGED otherThanUi

NextGradio ==
    \/ CheckKeys
    \/ DetermineTopic
    \/ CleanPrevious
    \/ CheckEleven
    \/ Launch
    \/ StreamLine
    \/ Finish

SpecGradio == InitGradio /\ [][NextGradio]_vars

\* --------------------------------- log streaming as a state machine
\* lines 414-429: the process is started, the two readers run and the loop
\* is entered
InitLog ==
    /\ IdleCore
    /\ IdleUi
    /\ IdleApp
    /\ IdleUrls
    /\ log_pc = "loop"
    /\ log_queue = <<>>
    /\ lines_read = [s \in Streams |-> 0]
    /\ reader_done = [s \in Streams |-> FALSE]
    /\ stdout_finished = FALSE
    /\ stderr_finished = FALSE
    /\ full_log = <<>>
    /\ error_output = <<>>

\* stream_reader, line 401: the reader of stream s reads one more line and
\* puts it on the queue
ReadLine(s) ==
    /\ log_pc # "idle"
    /\ ~ reader_done[s]
    /\ lines_read[s] < MaxStreamLines
    /\ lines_read' = [lines_read EXCEPT ![s] = @ + 1]
    /\ log_queue' = Append(log_queue, [stream_type |-> s, line |-> lines_read[s] + 1])
    /\ UNCHANGED <<log_pc, reader_done, stdout_finished, stderr_finished,
                   full_log, error_output>>
    /\ UNCHANGED otherThanLog

\* stream_reader, lines 402-403: readline returned '' or raised, and the
\* finally clause puts the sentinel
ReaderEOF(s) ==
    /\ log_pc # "idle"
    /\ ~ reader_done[s]
    /\ reader_done' = [reader_done EXCEPT ![s] = TRUE]
    /\ log_queue' = Append(log_queue, [stream_type |-> s])
    /\ UNCHANGED <<log_pc, lines_read, stdout_finished, stderr_finished,
                   full_log, error_output>>
    /\ UNCHANGED otherThanLog

\* line 432: the item dequeued is a sentinel, (stream_type, None)
IsNone(item) == "line" \notin DOMAIN item

LoopDoneOnEither == stdout_finished \/ stderr_finished

\* the negated condition of the while at line 430
LoopDone == stdout_finished /\ stderr_finished

\* line 440
IsStderr(stream_type) == stream_type = "stderr"

\* lines 430-443: one get from the queue; a get that times out (lines
\* 444-447) finds the loop condition still true and changes nothing
Dequeue ==
    /\ log_pc = "loop"
    /\ ~ LoopDone
    /\ log_queue # <<>>
    /\ LET stream_type == Head(log_queue).stream_type
       IN  /\ log_queue' = Tail(log_queue)
           /\ IF IsNone(Head(log_queue))
              THEN /\ stdout_finished' = (stdout_finished \/ stream_type = "stdout")
                   /\ stderr_finished' = (stderr_finished \/ stream_type # "stdout")
                   /\ UNCHANGED <<full_log, error_output>>
              ELSE /\ full_log' = Append(full_log, Head(log_queue))
                   /\ error_output' = IF IsStderr(stream_type)
                                      THEN Append(error_output, Head(log_queue))
                                      ELSE error_output
                   /\ UNCHANGED <<stdout_finished, stderr_finished>>
    /\ UNCHANGED <<log_pc, lines_read, reader_done>>
    /\ UNCHANGED otherThanLog

\* lines 430 and 449-450: the loop ends and the readers are joined
ExitLoop ==
    /\ log_pc = "loop"
    /\ LoopDone
    /\ reader_done["stdout"] /\ reader_done["stderr"]
    /\ log_pc' = "exited"
    /\ UNCHANGED <<log_queue, lines_read, reader_done, stdout_finished,
                   stderr_finished, full_log, error_output>>
    /\ UNCHANGED otherThanLog

NextLog ==
    \/ \E s \in Streams : ReadLine(s)
    \/ \E s \in Streams : ReaderEOF(s)
    \/ Dequeue
    \/ ExitLoop

SpecLog == InitLog /\ [][NextLog]_vars

\* ------------------------------------- the pipeline as a state machine
\* a result of a stage: None, an empty value, or a non-empty one
StageResults == {None, "empty", "some"}

\* Python's truth value of a stage result
Truthy(x) == x = "some"

\* what generate_video_url can return for non-empty search terms: a list
\* of [[t1, t2], url] with None for a segment that found nothing
FetchedTimelines ==
    {<<>>,
     <<Seg(<<0, 1>>, None)>>,
     <<Seg(<<0, 1>>, "clipA")>>,
     <<Seg(<<0, 1>>, "clipA"), Seg(<<1, 2>>, None)>>,
     <<Seg(<<0, 1>>, None), Seg(<<1, 2>>, "clipB")>>}

InitApp ==
    /\ IdleCore
    /\ IdleUi
    /\ IdleLog
    /\ IdleUrls
    /\ app_pc = "script"
    /\ app_audio_file \in {"absent", "old"}
    /\ app_script = None
    /\ app_success = FALSE
    /\ app_captions = None
    /\ app_captions_from = "none"
    /\ app_terms = None
    /\ app_timeline = NoTimeline
    /\ app_render_calls = <<>>
    /\ app_trace = <<>>
    /\ app_exit = "running"

\* lines 44-49
GenerateScript ==
    /\ app_pc = "script"
    /\ \E r \in StageResults :
          /\ app_script' = r
          /\ IF Truthy(r)
             THEN app_pc' = "audio" /\ UNCHANGED app_exit
             ELSE app_pc' = "done" /\ app_exit' = "1"
    /\ app_trace' = Append(app_trace, "script")
    /\ UNCHANGED <<app_audio_file, app_success, app_captions, app_captions_from,
                   app_terms, app_timeline, app_render_calls>>
    /\ UNCHANGED otherThanApp

\* lines 51-57: generate_audio returns False before running its subprocess
\* (audio_generator 35-47), or runs it; the subprocess writes the file or
\* not, and a failure only prints a warning
GenerateAudio ==
    /\ app_pc = "audio"
    /\ \E ok \in BOOLEAN, written \in BOOLEAN :
          /\ app_success' = ok
          /\ app_audio_file' = IF written THEN "new" ELSE app_audio_file
    /\ app_pc' = "captions"
    /\ app_trace' = Append(app_trace, "audio")
    /\ UNCHANGED <<app_script, app_captions, app_captions_from, app_terms,
                   app_timeline, app_render_calls, app_exit>>
    /\ UNCHANGED otherThanApp

\* lines 59-66
GenerateCaptions ==
    /\ app_pc = "captions"
    /\ \/ /\ app_audio_file # "absent"
          /\ app_captions' \in StageResults
          /\ app_captions_from' = app_audio_file
          /\ app_trace' = Append(app_trace, "captions")
       \/ /\ app_audio_file = "absent"
          /\ UNCHANGED <<app_captions, app_captions_from, app_trace>>
    /\ app_pc' = "queries"
    /\ UNCHANGED <<app_audio_file, app_script, app_success, app_terms,
                   app_timeline, app_render_calls, app_exit>>
    /\ UNCHANGED otherThanApp

\* lines 68-76
GenerateQueries ==
    /\ app_pc = "queries"
    /\ \/ /\ Truthy(app_captions)
          /\ app_terms' \in StageResults
          /\ app_trace' = Append(app_trace, "queries")
       \/ /\ ~ Truthy(app_captions)
          /\ UNCHANGED <<app_terms, app_trace>>
    /\ app_pc' = "urls"
    /\ UNCHANGED <<app_audio_file, app_script, app_success, app_captions,
                   app_captions_from, app_timeline, app_render_calls, app_exit>>
    /\ UNCHANGED otherThanApp

\* lines 78-89: generate_video_url, then merge_empty_intervals on its result
FetchAndMerge ==
    /\ app_pc = "urls"
    /\ \/ /\ Truthy(app_terms)
          /\ \E fetched \in FetchedTimelines :
                app_timeline' = [set |-> TRUE, merged |-> TRUE,
                                 segs |-> merge_empty_intervals(fetched).out]
          /\ app_trace' = app_trace \o <<"urls", "merge">>
       \/ /\ ~ Truthy(app_terms)
          /\ UNCHANGED <<app_timeline, app_trace>>
    /\ app_pc' = "render"
    /\ UNCHANGED <<app_audio_file, app_script, app_success, app_captions,
                   app_captions_from, app_terms, app_render_calls, app_exit>>
    /\ UNCHANGED otherThanApp

\* the condition of line 93
ReadyToRender == Truthy(app_captions) /\ app_timeline.set /\ Len(app_timeline.segs) > 0

\* lines 92-108: the render, whose failure is only printed; the script
\* then ends with exit code 0
RenderFinal ==
    /\ app_pc = "render"
    /\ \/ /\ ReadyToRender
          /\ app_render_calls' = Append(app_render_calls,
                [captions |-> app_captions, timeline |-> app_timeline,
                 audio |-> app_audio_file])
          /\ app_trace' = Append(app_trace, "render")
       \/ /\ ~ ReadyToRender
          /\ UNCHANGED <<app_render_calls, app_trace>>
    /\ app_pc' = "done"
    /\ app_exit' = "0"
    /\ UNCHANGED <<app_audio_file, app_script, app_success, app_captions,
                   app_captions_from, app_terms, app_timeline>>
    /\ UNCHANGED otherThanApp

NextApp ==
    \/ GenerateScript
    \/ GenerateAudio
    \/ GenerateCaptions
    \/ GenerateQueries
    \/ FetchAndMerge
    \/ RenderFinal

SpecApp == InitApp /\ [][NextApp]_vars

\* ------------------------------- generate_video_url as a state machine
\* links of the search provider: two files of video v1, one of v2, and a
\* link that does not contain '.hd'
Links == {"v1.hd.1920.mp4", "v1.hd.1280.mp4", "v2.hd.1920.mp4", "v3-1920.mp4"}

\* link.split('.hd')[0]
LinkBase(link) ==
    CASE link = "v1.hd.1920.mp4" -> "v1"
      [] link = "v1.hd.1280.mp4" -> "v1"
      [] link = "v2.hd.1920.mp4" -> "v2"
      [] OTHER -> link

\* a video file of a response: its link, and whether it is 1920x1080
Files == {[link |-> l, hd |-> TRUE] : l \in Links}
            \cup {[link |-> "v2.hd.1920.mp4", hd |-> FALSE]}

\* the video files of a search response, in the order getBestVideo visits
\* them; a failed or empty search is the empty response
Responses == UNION {[1..n -> Files] : n \in 0..MaxFiles}

InSeq(x, seq) == \E k \in 1..Len(seq) : seq[k] = x

RECURSIVE FirstUnused(_, _, _)
\* getBestVideo, lines 65-87: the first 1920x1080 file whose base is unused
FirstUnused(files, k, used_vids) ==
    IF k > Len(files) THEN None
    ELSE IF InSeq(LinkBase(files[k].link), used_vids) THEN FirstUnused(files, k + 1, used_vids)
    ELSE IF files[k].hd THEN files[k].link
    ELSE FirstUnused(files, k + 1, used_vids)

\* getBestVideo, lines 27-90
getBestVideo(query_string, files, used_vids) ==
    IF query_string = "" THEN None
    ELSE FirstUnused(files, 1, used_vids)

\* a slip that remembers the whole link instead of its base
UsedEntryWholeLink(url) == url

\* lines 130 and 137: what is remembered of an assigned link
UsedEntry(url) == LinkBase(url)

\* the elements timed_video_searches can hold at position k: a keyword
\* phrase, an empty phrase, or an element of the wrong structure
SearchItems(k) ==
    {[kind |-> "ok", interval |-> <<k - 1, k>>, keyword_phrase |-> w] : w \in {"keyword", ""}}
        \cup {[kind |-> "invalid", interval |-> <<0, 0>>, keyword_phrase |-> ""]}

SearchLists ==
    {s \in UNION {[1..n -> UNION {SearchItems(k) : k \in 1..MaxSearches}] : n \in 0..MaxSearches} :
        \A k \in 1..Len(s) : s[k] \in SearchItems(k)}

\* the response contains a 1920x1080 file whose base is already used
OffersUsed(files, used_vids) ==
    \E k \in 1..Len(files) : files[k].hd /\ InSeq(LinkBase(files[k].link), used_vids)

InitUrls ==
    /\ IdleCore
    /\ IdleUi
    /\ IdleLog
    /\ IdleApp
    /\ url_pc = "item"
    /\ timed_video_searches \in SearchLists
    /\ kayla_image_url \in {None, "kayla.jpg"}
    /\ url_index = 1
    /\ used_links = <<>>
    /\ timed_video_urls = <<>>
    /\ url_how = <<>>

\* line 144 with the loop's step
Emit(url, how, offered) ==
    /\ timed_video_urls' = Append(timed_video_urls,
            [interval |-> timed_video_searches[url_index].interval, url |-> url])
    /\ url_how' = Append(url_how, [how |-> how, item |-> url_index, offered_used |-> offered])
    /\ url_index' = url_index + 1
    /\ url_pc' = "item"

\* lines 108-132: one element of timed_video_searches up to the primary search
ProcessItem ==
    /\ url_pc = "item"
    /\ url_index <= Len(timed_video_searches)
    /\ LET item == timed_video_searches[url_index] IN
       \/ /\ item.kind = "invalid"
          /\ url_index' = url_index + 1
          /\ UNCHANGED <<url_pc, used_links, timed_video_urls, url_how>>
       \/ /\ item.kind = "ok"
          /\ url_index = 1 /\ kayla_image_url # None
          /\ Emit(kayla_image_url, "kayla", FALSE)
          /\ UNCHANGED used_links
       \/ /\ item.kind = "ok"
          /\ ~ (url_index = 1 /\ kayla_image_url # None)
          /\ item.keyword_phrase = ""
          /\ Emit(None, "nokeyword", FALSE)
          /\ UNCHANGED used_links
       \/ /\ item.kind = "ok"
          /\ ~ (url_index = 1 /\ kayla_image_url # None)
          /\ item.keyword_phrase # ""
          /\ \E files \in Responses :
                LET url == getBestVideo(item.keyword_phrase, files, used_links) IN
                IF url # None
                THEN /\ used_links' = Append(used_links, UsedEntry(url))
                     /\ Emit(url, "primary", OffersUsed(files, used_links))
                ELSE /\ url_pc' = "fallback"
                     /\ UNCHANGED <<url_index, used_links, timed_video_urls, url_how>>
    /\ UNCHANGED <<timed_video_searches, kayla_image_url>>
    /\ UNCHANGED otherThanUrl

\* lines 133-144: the 'news background' search after a primary search
\* that found nothing
Fallback ==
    /\ url_pc = "fallback"
    /\ \E files \in Responses :
          LET url == getBestVideo("news background", files, used_links) IN
          IF url # None
          THEN /\ used_links' = Append(used_links, UsedEntry(url))
               /\ Emit(url, "fallback", OffersUsed(files, used_links))
          ELSE /\ Emit(None, "nothing", OffersUsed(files, used_links))
               /\ UNCHANGED used_links
    /\ UNCHANGED <<timed_video_searches, kayla_image_url>>
    /\ UNCHANGED otherThanUrl

\* line 153
ReturnUrls ==
    /\ url_pc = "item"
    /\ url_index > Len(timed_video_searches)
    /\ url_pc' = "done"
    /\ UNCHANGED <<timed_video_searches, kayla_image_url, url_index, used_links,
                   timed_video_urls, url_how>>
    /\ UNCHANGED otherThanUrl

NextUrls ==
    \/ ProcessItem
    \/ Fallback
    \/ ReturnUrls

SpecUrls == InitUrls /\ [][NextUrls]_vars

\* ------------------------------------------------ claims on the resolver
AllOk(segs) == \A k \in 1..Len(segs) : segs[k].kind = "ok"

\* sorted, non-overlapping and contiguous: every interval is non-empty and
\* each end is the next start
Contiguous(segs) ==
    /\ AllOk(segs)
    /\ \A k \in 1..Len(segs) : segs[k].interval[1] < segs[k].interval[2]
    /\ \A k \in 1..(Len(segs) - 1) : segs[k].interval[2] = segs[k + 1].interval[1]

CoversFromZero(segs) ==
    Len(segs) > 0 /\ Contiguous(segs) /\ segs[1].interval[1] = 0

SameCoverage(a, b) ==
    /\ Len(a) > 0 /\ Len(b) > 0
    /\ a[1].interval[1] = b[1].interval[1]
    /\ a[Len(a)].interval[2] = b[Len(b)].interval[2]

HasNone(segs) == \E k \in 1..Len(segs) : segs[k].url = None
AllNone(segs) == \A k \in 1..Len(segs) : segs[k].url = None

\* merged_out is what merge_empty_intervals returned for `segments`
MergeReturned == mcalls >= 1 /\ ~merged_out.raised

\* C1 (as claimed): a timeline covering [0, T) contiguously is returned
\* covering [0, T) contiguously, with no None entry unless every entry of
\* the input was None.
C1_NoAbsentUnlessAllAbsent ==
    (MergeReturned /\ CoversFromZero(segments)) =>
        /\ CoversFromZero(merged_out.out)
        /\ SameCoverage(segments, merged_out.out)
        /\ (HasNone(merged_out.out) => AllNone(segments))

\* C1 (amended): a timeline covering [0, T) contiguously is returned
\* covering [0, T) contiguously; a None entry is left only when the input's
\* first entry was None, and then it is the first entry of the output and
\* the only None.
C1_NoAbsentUnlessLeadingAbsent ==
    (MergeReturned /\ CoversFromZero(segments)) =>
        /\ CoversFromZero(merged_out.out)
        /\ SameCoverage(segments, merged_out.out)
        /\ \A k \in 1..Len(merged_out.out) :
              merged_out.out[k].url = None => (k = 1 /\ segments[1].url = None)
        /\ (segments[1].url = None => merged_out.out[1].url = None)

\* a contiguous timeline over [0, T) with a leading None and media after it
\* has been resolved
C1_Witness ==
    /\ MergeReturned /\ mcalls = 1
    /\ CoversFromZero(segments)
    /\ Len(segments) = 3
    /\ segments[1].url = None /\ segments[2].url # None /\ segments[3].url = None
    /\ Len(merged_out.out) = 2
    /\ merged_out.out[1].url = None /\ merged_out.out[2].url # None

\* C2: for a contiguous input the returned timeline is sorted by start,
\* non-overlapping, contiguous, begins at the input's first start and ends
\* at the input's last end.
C2_SortedContiguousSameSpan ==
    (MergeReturned /\ Len(segments) > 0 /\ Contiguous(segments)) =>
        /\ \A k \in 1..Len(merged_out.out) :
              merged_out.out[k].interval[1] < merged_out.out[k].interval[2]
        /\ \A k \in 1..(Len(merged_out.out) - 1) :
              /\ merged_out.out[k].interval[1] < merged_out.out[k + 1].interval[1]
              /\ merged_out.out[k].interval[2] = merged_out.out[k + 1].interval[1]
        /\ SameCoverage(segments, merged_out.out)

\* a contiguous timeline that does not start at 0, a clip and a None after
\* it, has been resolved into one segment
C2_Witness ==
    /\ MergeReturned /\ mcalls = 1
    /\ Contiguous(segments)
    /\ Len(segments) = 2
    /\ segments[1].interval[1] = 1
    /\ segments[1].url # None /\ segments[2].url = None
    /\ merged_out.out = <<Seg(<<1, segments[2].interval[2]>>, segments[1].url)>>

\* C3: resolving a returned timeline again returns the same timeline.
C3_Idempotent ==
    mcalls = 2 => (~merged_out.raised /\ merged_out.out = prev_out.out)

\* the second call was made on a timeline that the first call had changed
\* and that still holds a leading None
C3_Witness ==
    /\ mcalls = 2
    /\ Len(prev_out.out) >= 2
    /\ prev_out.out[1].url = None
    /\ prev_out.out[2].interval[2] - prev_out.out[2].interval[1] >= 2

\* the maximal None block after index p ends at index RunLast(segs, p)
\* (p itself when no None follows)
RunLast(segs, p) == RunEnd(segs, p + 1) - 1

\* position in the output of the p-th input element, a resolved one
OutIndex(segs, p) ==
    Cardinality({r \in 1..p : segs[r].url # None})
        + (IF segs[1].url = None THEN 1 ELSE 0)

\* C4: a resolved segment followed by a maximal None block is returned with
\* its start and media kept and its end moved to the end of the block's
\* last segment; the block's segments are dropped; a resolved segment that
\* no None follows is returned unchanged.
C4_BackwardExtension ==
    (MergeReturned /\ Len(segments) > 0 /\ AllOk(segments)) =>
        /\ Len(merged_out.out) =
              Cardinality({r \in 1..Len(segments) : segments[r].url # None})
                  + (IF segments[1].url = None THEN 1 ELSE 0)
        /\ \A p \in 1..Len(segments) :
              segments[p].url # None =>
                  merged_out.out[OutIndex(segments, p)] =
                      Seg(<<segments[p].interval[1],
                            segments[RunLast(segments, p)].interval[2]>>,
                          segments[p].url)

\* C4, the example of the specification with its times divided by 3
C4_Example ==
    LET x == <<Seg(<<0, 1>>, "clipA"), Seg(<<1, 2>>, None), Seg(<<2, 3>>, "clipB")>> IN
    (mcalls = 1 /\ segments = x) =>
        merged_out = Returned(<<Seg(<<0, 2>>, "clipA"), Seg(<<2, 3>>, "clipB")>>)

\* C4: backward extension in general and on the example
C4_BackwardExtensionAndExample == C4_BackwardExtension /\ C4_Example

\* the example has been resolved, and so has a clip followed by a None
\* block (the state is one of the two)
C4_Witness ==
    /\ MergeReturned /\ mcalls = 1
    /\ Contiguous(segments)
    /\ Len(segments) = 3
    /\ segments[1].url = "clipA" /\ segments[2].url = None /\ segments[3].url = "clipB"
    /\ merged_out.out = <<Seg(<<segments[1].interval[1], segments[2].interval[2]>>, "clipA"),
                          segments[3]>>

\* C11: when the list is not empty and every element is a well-formed
\* [interval, None], the call returns exactly one element, with url None,
\* whose interval runs from the first element's start to the last
\* element's end.
C11_AllAbsentOneSegment ==
    (mcalls >= 1 /\ Len(segments) > 0 /\ AllOk(segments) /\ AllNone(segments)) =>
        /\ ~merged_out.raised
        /\ merged_out.out =
              <<Seg(<<segments[1].interval[1], segments[Len(segments)].interval[2]>>,
                    None)>>

\* three None elements with a gap between them have been resolved into one
C11_Witness ==
    /\ mcalls = 1
    /\ Len(segments) = 3
    /\ AllOk(segments) /\ AllNone(segments)
    /\ segments[2].interval[1] > segments[1].interval[2]
    /\ Len(merged_out.out) = 1
    /\ merged_out.out[1].url = None
    /\ merged_out.out[1].interval[2] = segments[3].interval[2]

\* C20: after a call the list handed in, its elements and their interval
\* lists read as before the call, also when the call has extended a
\* segment; the call on the heap returns what merge_empty_intervals returns.
C20_InputNotMutated ==
    mcalls >= 1 =>
        /\ segments_after = segments
        /\ OutputOnHeap(segments) = merged_out

\* a call that has extended the first element over a None after it
C20_Witness ==
    /\ mcalls = 1 /\ MergeReturned
    /\ Len(segments) = 2
    /\ AllOk(segments)
    /\ segments[1].url # None /\ segments[2].url = None
    /\ Len(merged_out.out) = 1
    /\ merged_out.out[1].interval[2] = segments[2].interval[2]
    /\ merged_out.out[1].interval # segments[1].interval
    /\ segments_after = segments

\* first resolved element of a list that has one
FirstResolved(segs) ==
    CHOOSE p \in 1..Len(segs) :
        segs[p].url # None /\ \A r \in 1..(p - 1) : segs[r].url = None

\* C21: for a list of well-formed elements, adjacent or not, a None is
\* returned only as the first element; when the list starts with a None
\* block and a resolved element follows, the first element returned is
\* None over that block and the second is the resolved element with its
\* own start.
C21_OnlyLeadingAbsent ==
    (MergeReturned /\ Len(segments) > 0 /\ AllOk(segments)) =>
        /\ \A k \in 1..Len(merged_out.out) : merged_out.out[k].url = None => k = 1
        /\ (segments[1].url = None /\ ~AllNone(segments)) =>
              LET p == FirstResolved(segments) IN
              /\ Len(merged_out.out) >= 2
              /\ merged_out.out[1] =
                    Seg(<<segments[1].interval[1], segments[p - 1].interval[2]>>, None)
              /\ merged_out.out[2].url = segments[p].url
              /\ merged_out.out[2].interval[1] = segments[p].interval[1]

\* a None, a clip that starts later than the None ends and a None that
\* starts later than the clip ends have been resolved
C21_Witness ==
    /\ mcalls = 1 /\ MergeReturned
    /\ Len(segments) = 3 /\ AllOk(segments)
    /\ segments[1].url = None /\ segments[2].url # None /\ segments[3].url = None
    /\ segments[2].interval[1] > segments[1].interval[2]
    /\ segments[3].interval[1] > segments[2].interval[2]
    /\ Len(merged_out.out) = 2
    /\ merged_out.out[1] = segments[1]
    /\ merged_out.out[2].interval[1] = segments[2].interval[1]

\* a resolved element p followed by a None block that does not start at
\* its end
GapAfter(segs, p) ==
    /\ p < Len(segs)
    /\ segs[p].url # None /\ segs[p + 1].url = None
    /\ segs[p].interval[2] # segs[p + 1].interval[1]

\* C22 (as claimed): a resolved element followed by a None block that does
\* not start at its end is returned with its interval unchanged, and the
\* block is returned after it as a None element of its own.
C22_GapKeepsPlaceholder ==
    (MergeReturned /\ Len(segments) > 0 /\ AllOk(segments)) =>
        \A p \in 1..Len(segments) :
            GapAfter(segments, p) =>
                \E k \in 1..(Len(merged_out.out) - 1) :
                    /\ merged_out.out[k] = segments[p]
                    /\ merged_out.out[k + 1] =
                          Seg(<<segments[p + 1].interval[1],
                                segments[RunLast(segments, p)].interval[2]>>, None)

\* C22 (amended): a resolved element followed by a None block that does
\* not start at its end is returned with its start and media kept and its
\* end moved to the end of the block, as when the block is adjacent; the
\* block is not returned.
C22_GapAbsorbedToo ==
    (MergeReturned /\ Len(segments) > 0 /\ AllOk(segments)) =>
        \A p \in 1..Len(segments) :
            GapAfter(segments, p) =>
                /\ merged_out.out[OutIndex(segments, p)] =
                      Seg(<<segments[p].interval[1],
                            segments[RunLast(segments, p)].interval[2]>>,
                          segments[p].url)
                /\ \A k \in 2..Len(merged_out.out) : merged_out.out[k].url # None

\* a clip and a None that starts one later than the clip ends have been
\* resolved into one segment
C22_Witness ==
    /\ mcalls = 1 /\ MergeReturned
    /\ Len(segments) = 2
    /\ GapAfter(segments, 1)
    /\ segments[2].interval[1] = segments[1].interval[2] + 1
    /\ merged_out.out =
          <<Seg(<<segments[1].interval[1], segments[2].interval[2]>>, segments[1].url)>>

\* the media and the starts of the resolved elements of a list, in order
RECURSIVE ResolvedStarts(_, _)
ResolvedStarts(segs, k) ==
    IF k = 0 THEN <<>>
    ELSE IF segs[k].url # None
    THEN Append(ResolvedStarts(segs, k - 1), <<segs[k].url, segs[k].interval[1]>>)
    ELSE ResolvedStarts(segs, k - 1)

\* C23: for a contiguous list of well-formed elements the resolved
\* elements returned carry, in order, the media of the resolved elements
\* handed in, each with its start, and no more elements are returned than
\* were handed in.
C23_MediaKeptInOrder ==
    (MergeReturned /\ Len(segments) > 0 /\ Contiguous(segments)) =>
        /\ ResolvedStarts(merged_out.out, Len(merged_out.out))
              = ResolvedStarts(segments, Len(segments))
        /\ Len(merged_out.out) <= Len(segments)

\* clipB, a None and clipA, contiguous, have been resolved into clipB and
\* clipA
C23_Witness ==
    /\ mcalls = 1 /\ MergeReturned
    /\ Contiguous(segments)
    /\ Len(segments) = 3
    /\ segments[1].url = "clipB" /\ segments[2].url = None /\ segments[3].url = "clipA"
    /\ Len(merged_out.out) = 2
    /\ merged_out.out[1].url = "clipB" /\ merged_out.out[2].url = "clipA"

\* ------------------------------------------------ claims on the reframer
TargetSize == <<TargetWidth, TargetHeight>>

Cropped == frame_out.status # "none" /\ frame_out.path \in {"guided", "center"}

\* C8: the crop window satisfies 0 <= x1 < x2 <= w and 0 <= y1 < y2 <= h in
\* the detector-guided path and in the centre-crop fallback.
C8_CropWindowInsideFrame ==
    Cropped =>
        /\ 0 <= frame_out.crop[1] /\ frame_out.crop[1] < frame_out.crop[3]
        /\ frame_out.crop[3] <= src[1]
        /\ 0 <= frame_out.crop[2] /\ frame_out.crop[2] < frame_out.crop[4]
        /\ frame_out.crop[4] <= src[2]

\* what holds of the window for every source: it never leaves the frame,
\* and it is empty only in the centre crop of a source one pixel high
CropWindowNeverOutside ==
    Cropped =>
        /\ 0 <= frame_out.crop[1] /\ frame_out.crop[1] <= frame_out.crop[3]
        /\ frame_out.crop[3] <= src[1]
        /\ 0 <= frame_out.crop[2] /\ frame_out.crop[2] < frame_out.crop[4]
        /\ frame_out.crop[4] <= src[2]
        /\ (frame_out.crop[1] = frame_out.crop[3] =>
                (src[2] = 1 /\ frame_out.path = "center"))

\* C15 (as claimed): for a source wider than the target aspect the crop
\* window has the height of the frame and the width h*9/16, bounded by w
\* (in pixels: that width rounded down or up), lies inside the frame, and
\* holds the centre of the anchor, or of the frame when there is no
\* anchor, unless it has been shifted against an edge.
C15_LandscapeWindowWidth ==
    (rmode = "fl" /\ frame_out.status = "emitted" /\ Landscape(src[1], src[2])
        /\ OffAspect(src[1], src[2])) =>
        LET w == src[1]
            h == src[2]
            c == frame_out.crop
            lo == Min2(w, (h * AspectNum) \div AspectDen)
            hi == Min2(w, (h * AspectNum + AspectDen - 1) \div AspectDen)
            c2 == IF largest_object_bbox.set
                  THEN largest_object_bbox.box[1] + largest_object_bbox.box[3]
                  ELSE w
        IN /\ c[2] = 0 /\ c[4] = h
           /\ lo <= c[3] - c[1] /\ c[3] - c[1] <= hi
           /\ 0 <= c[1] /\ c[3] <= w
           /\ \/ (2 * c[1] <= c2 /\ c2 <= 2 * c[3])
              \/ c[1] = 0
              \/ c[3] = w

\* C16 (as claimed): without the detector a frame request does not fail
\* and the frame is a centre crop of the source to the target aspect: for
\* a source off the target aspect the window is no wider (a landscape
\* source) or no higher (a portrait source) than the target aspect allows,
\* and lies in the middle of the frame, to the pixel.
C16_NoDetectorCentreCrop ==
    (rmode = "resize" /\ frame_out.status # "none") =>
        /\ frame_out.status = "emitted"
        /\ OffAspect(src[1], src[2]) =>
              LET w == src[1]
                  h == src[2]
                  c == frame_out.crop
              IN IF Landscape(w, h)
                 THEN /\ c[3] - c[1] <= (h * AspectNum + AspectDen - 1) \div AspectDen
                      /\ Abs(c[1] - (w - c[3])) <= 1
                 ELSE /\ c[4] - c[2] <= (w * AspectDen + AspectNum - 1) \div AspectNum
                      /\ Abs(c[2] - (h - c[4])) <= 1

\* ---------------------------------------------- claims on the compositor
\* lines 244-288 have run
Composed == pc \in {"write", "cleanup", "done"}

\* an audio track is present and its duration is known
AudioKnown == Len(audio_clips) > 0 /\ audio_clips[1].duration # NoDur

LoadedSegments == {k \in 1..Len(outcomes) : outcomes[k] = "loaded"}
FailedSegments == {k \in 1..Len(outcomes) : outcomes[k] = "failed"}

\* the largest declared end among the elements that were loaded
MaxLoadedEnd ==
    LET ends == {background_video_data[k].interval[2] : k \in LoadedSegments} IN
    CHOOSE m \in ends : \A e \in ends : e <= m

ClipOf(k) ==
    LET at == CHOOSE j \in 1..Len(final_video.clips) : final_video.clips[j].seg = k
    IN final_video.clips[at]

RECURSIVE LoadedIntervals(_)
LoadedIntervals(k) ==
    IF k = 0 THEN <<>>
    ELSE IF outcomes[k] = "loaded"
    THEN Append(LoadedIntervals(k - 1),
                <<k, background_video_data[k].interval[1],
                  background_video_data[k].interval[2]>>)
    ELSE LoadedIntervals(k - 1)

ClipIntervals(clips) == [j \in 1..Len(clips) |-> <<clips[j].seg, clips[j].start, clips[j].end>>]

NoMedia == \A k \in 1..Len(background_video_data) : background_video_data[k].url = None

\* C10: when no element carries media, write_videofile is never called,
\* rendered_video.mp4 is left as it was and None is returned, with or
\* without audio and captions.
C10_NoMediaNoOutput ==
    (NoMedia /\ pc \notin {"idle", "args"}) =>
        /\ writer_calls = 0
        /\ out_file = out_file_before
        /\ ~final_video.set
        /\ returned = None

\* a run over two None elements, with audio and a caption and an earlier
\* rendered_video.mp4 lying there, has returned
C10_Witness ==
    /\ pc = "done"
    /\ NoMedia
    /\ Len(background_video_data) = 2
    /\ AudioKnown
    /\ Len(caption_clips) > 0
    /\ out_file_before = "stale"
    /\ returned = None

\* the largest end among the caption clips
MaxCaptionEnd ==
    LET ends == {caption_clips[k].end : k \in 1..Len(caption_clips)} IN
    CHOOSE m \in ends : \A e \in ends : e <= m

\* no audio clip, an empty background timeline and at least one caption clip
CaptionsOnly ==
    /\ Composed
    /\ Len(background_video_data) = 0
    /\ Len(audio_clips) = 0
    /\ Len(caption_clips) > 0

\* C12 (as claimed): with no audio and an empty background timeline but
\* captions present, there is a composite and its duration is the largest
\* end among the captions.
C12_CaptionsOnlyDuration ==
    CaptionsOnly => (final_video.set /\ final_video.duration = MaxCaptionEnd)

\* C12 (amended): with no audio and an empty background timeline but
\* captions present, there is no composite: final_video is None,
\* write_videofile is not called, rendered_video.mp4 is left as it was and
\* None is returned.
C12_CaptionsOnlyNoComposite ==
    CaptionsOnly =>
        /\ ~final_video.set
        /\ writer_calls = 0
        /\ out_file = out_file_before
        /\ (pc = "done" => returned = None)

\* a run with one caption clip, no audio and no background has returned
C12_Witness ==
    /\ pc = "done"
    /\ CaptionsOnly
    /\ MaxCaptionEnd = 1
    /\ returned = None

AnchorOf(c) == cells[AnchorCell(c)]

\* C14: a processed frame leaves the anchor of its call as it was or
\* replaces it by a box of strictly larger area (by any box when there was
\* none); an anchor that was set stays set and its area does not decrease.
C14_AnchorOnlyGrows ==
    last_run.op = "frame" =>
        LET before == last_run.before
            now == AnchorOf(last_run.clip)
        IN /\ (now # before =>
                  (now.set /\ (~before.set \/ Area(now.box) > Area(before.box))))
           /\ (before.set => (now.set /\ Area(now.box) >= Area(before.box)))

\* a frame with a larger box has replaced an anchor that was set
C14_Witness ==
    /\ last_run.op = "frame"
    /\ last_run.before.set
    /\ AnchorOf(last_run.clip) # last_run.before
    /\ Area(AnchorOf(last_run.clip).box) > Area(last_run.before.box)

\* C17: a step of one clip (its yolo_reframe_clip call or one of its
\* frames) changes neither the anchor nor the last frame of the other
\* clip, and the window of a guided frame is the one around the anchor of
\* its own clip.
C17_AnchorPerClip ==
    [][\A c \in Media :
          /\ (last_run'.clip # c =>
                 /\ cells'[AnchorCell(c)] = cells[AnchorCell(c)]
                 /\ clip_frame'[c] = clip_frame[c])
          /\ (clip_frame'[c].path = "guided" =>
                 /\ cells'[AnchorCell(c)].set
                 /\ clip_frame'[c].crop =
                        GuidedWindow(ClipSize[1], ClipSize[2],
                                     cells'[AnchorCell(c)].box))]_vars

\* both clips have had frames processed, clipB last, and each is cropped
\* around its own box
C17_Witness ==
    /\ last_run.clip = "clipB" /\ last_run.op = "frame"
    /\ AnchorOf("clipA").set /\ AnchorOf("clipB").set
    /\ clip_frame["clipA"].path = "guided" /\ clip_frame["clipB"].path = "guided"
    /\ clip_frame["clipA"].crop # clip_frame["clipB"].crop
    /\ Area(AnchorOf("clipB").box) > Area(AnchorOf("clipA").box)

\* C18 (as claimed): when the download of an element never returns, the
\* render goes on with the other elements and get_output_media returns in
\* the end.
C18_StalledRenderReturns == (pc = "stalled") ~> (pc = "done")

\* C19 (as claimed): when get_output_media has returned None, no partial
\* rendered_video.mp4 written by this call is left.
C19_NoPartialFileOnFailure ==
    (pc = "done" /\ returned = None) => out_file # "partial"

\* C27 (as claimed): when get_output_media has returned, none of the
\* temporary files it created is left.
C27_TempFilesRemoved ==
    pc = "done" => tmp_on_disk = {}

\* ----------------------------------------- claims on run_video_script
PreconditionExits ==
    {"missing_keys", "kayla_error", "empty_topic", "unknown_personality", "missing_eleven"}

\* C24: whenever run_video_script has returned, the button state it yielded
\* last is the enabled 'Generate Video' button.
C24_ButtonReenabled == ui_pc = "returned" => ui_button = "enabled"

\* C26: a video path is yielded only if the process of this call exited with
\* code 0 and its render reported success.
C26_VideoOnlyFromSuccessfulRender ==
    ui_video # None => (ui_proc.returncode = 0 /\ ui_proc.render = "ok")

\* C29: a call that returned because a precondition check failed launched no
\* process and left rendered_video.mp4 and audio_tts.wav as they were.
C29_FailedCheckTouchesNothing ==
    (ui_pc = "returned" /\ ui_exit \in PreconditionExits)
        => (~ ui_launched /\ ui_files = ui_files_before)


\* ----------------------------------------------- claims on log streaming
\* the lines of stream s, in the order its reader enqueued them
LinesOf(s) == [k \in 1..lines_read[s] |-> [stream_type |-> s, line |-> k]]

OfStream(log, s) == SelectSeq(log, LAMBDA e : e.stream_type = s)

\* C25: when the loop has exited, both sentinels have been dequeued, every
\* line a reader enqueued is in full_log, the lines of each stream are in
\* full_log in the order they were read, and error_output holds exactly the
\* stderr lines.
C25_NoLineLost ==
    log_pc = "exited" =>
        /\ stdout_finished /\ stderr_finished
        /\ log_queue = <<>>
        /\ \A s \in Streams : OfStream(full_log, s) = LinesOf(s)
        /\ error_output = LinesOf("stderr")

C25_Witness ==
    /\ log_pc = "exited"
    /\ lines_read["stdout"] = MaxStreamLines
    /\ lines_read["stderr"] = MaxStreamLines
    /\ full_log[1].stream_type = "stderr"
    /\ full_log[2].stream_type = "stdout"
    /\ full_log[3].stream_type = "stderr"


\* -------------------------------------------------- claims on the pipeline
StageOrder == <<"script", "audio", "captions", "queries", "urls", "merge", "render">>

StageIndex(name) == CHOOSE k \in 1..Len(StageOrder) : StageOrder[k] = name

\* the stages ran in the pipeline's order, each at most once
InStageOrder(trace) ==
    \A i, j \in 1..Len(trace) : i < j => StageIndex(trace[i]) < StageIndex(trace[j])

\* the part of C28 about the order of the stages and the render call
RenderOnlyOnMergedTimeline ==
    /\ InStageOrder(app_trace)
    /\ Len(app_render_calls) <= 1
    /\ \A k \in 1..Len(app_render_calls) :
          /\ app_render_calls[k].timeline.merged
          /\ Len(app_render_calls[k].timeline.segs) > 0
          /\ Truthy(app_render_calls[k].captions)

\* C28: the stages run in order, captions are generated only from audio
\* generated in this run, and get_output_media is called at most once, on
\* a merged non-empty timeline with non-empty captions.
C28_StagesFollowResults ==
    /\ RenderOnlyOnMergedTimeline
    /\ app_captions_from # "old"


\* ----------------------------------------- claims on generate_video_url
FromProvider(k) == url_how[k].how \in {"primary", "fallback"}

\* C30: no two elements carry provider links with the same base, whether
\* found by the primary or the fallback search, and an element for which
\* both searches found nothing carries its interval and None.
C30_NoLinkBaseTwice ==
    /\ \A i, j \in 1..Len(timed_video_urls) :
          (i < j /\ FromProvider(i) /\ FromProvider(j))
              => LinkBase(timed_video_urls[i].url) # LinkBase(timed_video_urls[j].url)
    /\ \A k \in 1..Len(timed_video_urls) :
          url_how[k].how = "nothing"
              => /\ timed_video_urls[k].url = None
                 /\ timed_video_urls[k].interval
                        = timed_video_searches[url_how[k].item].interval

C30_Witness ==
    /\ url_pc = "done"
    /\ Len(timed_video_urls) = 3
    /\ url_how[1].how = "primary"
    /\ url_how[2].how = "fallback" /\ url_how[2].offered_used
    /\ url_how[3].how = "nothing" /\ url_how[3].offered_used


====
